---- MODULE Spec2Model ----
(***************************************************************************)
(* A model of fetch-release-notes.py: the driver loop of main, the GitHub  *)
(* fetcher, the two HTML fetchers (Dyalog documentation, J wiki) and the   *)
(* converter element_to_markdown.  Strings are TLA+ strings handled with   *)
(* Len, SubSeq and \o; a parsed HTML tree is a record with the fields      *)
(* name, text, href, cls, id and kids.                                     *)
(***************************************************************************)
EXTENDS Naturals, Sequences, FiniteSets, TLC

VARIABLES
    pc,             \* position of the running function
    releases_data,  \* main: the loaded configuration
    pos,            \* main: <<index of the language, index of the version>>
    notes_cache,    \* main: cache key -> Release Record
    url,            \* the URL being fetched
    response,       \* the outcome of requests.get for that URL
    content,        \* fetchers: the Content Root (None when not found)
    todo,           \* fetchers: the elements the block loop has still to visit
    markdown,       \* fetchers: the list of emitted fragments
    last_was_list,  \* fetch_j_wiki_release: the list flag
    result,         \* fetchers: the string being post-processed / returned
    element         \* the element handled last (the converter's argument)

vars == <<pc, releases_data, pos, notes_cache, url, response, content, todo,
          markdown, last_was_list, result, element>>

None == [name |-> "None"]

(***************************************************************************)
(* Python string operations.                                               *)
(***************************************************************************)

NL == "\n"

NL2 == "\n\n"

NL3 == "\n\n\n"

Whitespace == {" ", "\n", "\t"}

CharAt(s, i) == SubSeq(s, i, i)

DropFirst(s, n) == SubSeq(s, n + 1, Len(s))

\* str.startswith
StartsWith(s, p) == Len(p) <= Len(s) /\ SubSeq(s, 1, Len(p)) = p

\* sub in s
Contains(s, sub) ==
    \E i \in 1..(Len(s) + 1) :
        i + Len(sub) - 1 <= Len(s) /\ SubSeq(s, i, i + Len(sub) - 1) = sub

RECURSIVE ReplaceAll(_, _, _)
\* str.replace(old, new) for a non-empty old: non-overlapping, left to right
ReplaceAll(s, old, new) ==
    IF Len(s) < Len(old) THEN s
    ELSE IF StartsWith(s, old)
         THEN new \o ReplaceAll(DropFirst(s, Len(old)), old, new)
         ELSE CharAt(s, 1) \o ReplaceAll(DropFirst(s, 1), old, new)

RECURSIVE LStrip(_)
LStrip(s) ==
    IF Len(s) > 0 /\ CharAt(s, 1) \in Whitespace THEN LStrip(DropFirst(s, 1)) ELSE s

RECURSIVE LStripNewlines(_)
\* s without its leading newlines
LStripNewlines(s) ==
    IF Len(s) > 0 /\ CharAt(s, 1) = NL THEN LStripNewlines(DropFirst(s, 1)) ELSE s

RECURSIVE RStrip(_)
RStrip(s) ==
    IF Len(s) > 0 /\ CharAt(s, Len(s)) \in Whitespace
    THEN RStrip(SubSeq(s, 1, Len(s) - 1))
    ELSE s

\* str.strip
Strip(s) == RStrip(LStrip(s))

RECURSIVE Join(_, _)
\* sep.join(parts)
Join(sep, parts) ==
    IF Len(parts) = 0 THEN ""
    ELSE IF Len(parts) = 1 THEN parts[1]
    ELSE parts[1] \o sep \o Join(sep, Tail(parts))

RECURSIVE Repeat(_, _)
\* s * n
Repeat(s, n) == IF n = 0 THEN "" ELSE s \o Repeat(s, n - 1)

\* The backquote character of the source (lines 73, 130, 229).  The parser
\* admits no backquote inside a string, so the apostrophe, which occurs in no
\* input of this model, stands for it.
Backtick == "'"

(***************************************************************************)
(* Parsed HTML.  A text node has name "" and carries text; an element has  *)
(* a tag name, the attributes href, class and id, and children.            *)
(***************************************************************************)

T(text) == [name |-> "", text |-> text, href |-> "", cls |-> {}, id |-> "", kids |-> <<>>]

EA(name, href, cls, id, kids) ==
    [name |-> name, text |-> "", href |-> href, cls |-> cls, id |-> id, kids |-> kids]

E(name, kids) == EA(name, "", {}, "", kids)

A(href, kids) == EA("a", href, {}, "", kids)

IsString(node) == node.name = ""

RECURSIVE get_text(_, _)
\* Tag.get_text(strip=...): the text nodes below the node, each stripped and
\* the empty ones left out when strip is set, concatenated
get_text(node, strip) ==
    IF IsString(node)
    THEN (IF strip THEN Strip(node.text) ELSE node.text)
    ELSE Join("", [i \in 1..Len(node.kids) |-> get_text(node.kids[i], strip)])

\* a faulty variant of AnchorMarkdown, for comparison: the test of the text is forgotten
AnchorLinksEmptyText(href, text) ==
    IF href # "" THEN "[" \o text \o "](" \o href \o ")" ELSE text

\* the a branch: a link when there are an href and a text, else the text
AnchorMarkdown(href, text) ==
    IF href # "" /\ text # "" THEN "[" \o text \o "](" \o href \o ")" ELSE text

RECURSIVE element_to_markdown(_)
element_to_markdown(el) ==
    IF IsString(el) THEN el.text
    ELSE Join("", [i \in 1..Len(el.kids) |->
            LET child == el.kids[i] IN
            IF IsString(child) THEN child.text
            ELSE IF child.name = "a"
                 THEN AnchorMarkdown(child.href, get_text(child, TRUE))
            ELSE IF child.name \in {"strong", "b"}
                 THEN "**" \o element_to_markdown(child) \o "**"
            ELSE IF child.name \in {"em", "i"}
                 THEN "*" \o element_to_markdown(child) \o "*"
            ELSE IF child.name = "code"
                 THEN Backtick \o get_text(child, TRUE) \o Backtick
            ELSE element_to_markdown(child)])


RECURSIVE Flatten(_)
Flatten(seqs) == IF Len(seqs) = 0 THEN <<>> ELSE Head(seqs) \o Flatten(Tail(seqs))

RECURSIVE Descendants(_)
\* Tag.descendants: every node below the node, in document order
Descendants(node) ==
    Flatten([i \in 1..Len(node.kids) |-> <<node.kids[i]>> \o Descendants(node.kids[i])])

First(nodes) == IF Len(nodes) = 0 THEN None ELSE nodes[1]

IsTag(n, names) == n.name \in names

HasClass(n, name, classes) == n.name = name /\ n.cls \cap classes # {}

HasId(n, name, id) == n.name = name /\ n.id = id

\* element.find_all('li', recursive=False)
DirectItems(el) == SelectSeq(el.kids, LAMBDA k : k.name = "li")

(***************************************************************************)
(* The three HTML layouts.  fetch_dyalog_release chooses between the first *)
(* two by the URL; main sends jsoftware.com URLs to fetch_j_wiki_release.  *)
(***************************************************************************)

Layout(u) ==
    IF Contains(u, "jsoftware.com") THEN "wiki"
    ELSE IF Contains(u, "docs.dyalog.com") THEN "docs"
    ELSE "www"

NotFound == "Release notes not found on page."

\* a faulty variant of FindContent, for comparison: the fallback forgets its class or id and takes
\* the first div of the page
FindAnyDiv(layout, soup) ==
    LET all == Descendants(soup)
        first == CASE layout = "docs" -> First(SelectSeq(all, LAMBDA n : IsTag(n, {"article"})))
                   [] layout = "www" -> First(SelectSeq(all, LAMBDA n : HasId(n, "div", "content")))
                   [] OTHER -> First(SelectSeq(all, LAMBDA n : HasClass(n, "div", {"mw-parser-output"})))
        second == First(SelectSeq(all, LAMBDA n : IsTag(n, {"div", "main"})))
    IN  IF first # None THEN first ELSE second

\* soup.find(first selector), or else soup.find(second selector)
FindContent(layout, soup) ==
    LET all == Descendants(soup)
        first == CASE layout = "docs" -> First(SelectSeq(all, LAMBDA n : IsTag(n, {"article"})))
                   [] layout = "www" -> First(SelectSeq(all, LAMBDA n : HasId(n, "div", "content")))
                   [] OTHER -> First(SelectSeq(all, LAMBDA n : HasClass(n, "div", {"mw-parser-output"})))
        second == CASE layout = "docs" -> First(SelectSeq(all, LAMBDA n : HasClass(n, "div", {"md-content"})))
                    [] layout = "www" -> First(SelectSeq(all, LAMBDA n : IsTag(n, {"main"})))
                    [] OTHER -> First(SelectSeq(all, LAMBDA n : HasId(n, "div", "mw-content-text")))
    IN  IF first # None THEN first ELSE second

\* the elements each layout decomposes before its block loop
Decomposed(layout, n) ==
    CASE layout = "docs" -> IsTag(n, {"nav", "footer"})
      [] layout = "wiki" ->
            n.name \in {"div", "table"} /\ n.cls \cap {"toc", "navbox", "metadata", "ambox"} # {}
      [] OTHER -> FALSE

RECURSIVE Prune(_, _)
\* for element in content.find_all(...): element.decompose()
Prune(layout, node) ==
    [node EXCEPT !.kids =
        LET kept == SelectSeq(node.kids, LAMBDA k : ~Decomposed(layout, k))
        IN  [i \in 1..Len(kept) |-> Prune(layout, kept[i])]]

\* the elements the block loop visits: content.children, or for www.dyalog.com
\* content.find_all(['h1', 'h2', 'h3', 'p', 'ul'])
Blocks(layout, root) ==
    IF layout = "www"
    THEN SelectSeq(Descendants(root), LAMBDA n : IsTag(n, {"h1", "h2", "h3", "p", "ul"}))
    ELSE root.kids

DyalogMinLen == 5

WikiMinLen == 10

HeadingLevel(name) == CASE name = "h1" -> 1 [] name = "h2" -> 2 [] OTHER -> 3

\* the "* item" fragments of a ul, and the empty fragment that closes it
ListFragments(ul, skip_http) ==
    LET items == DirectItems(ul)
        mds == [i \in 1..Len(items) |-> Strip(element_to_markdown(items[i]))]
        kept == SelectSeq(mds, LAMBDA m : m # "" /\ ~(skip_http /\ StartsWith(m, "http")))
    IN  [i \in 1..Len(kept) |-> "* " \o kept[i]] \o <<"">>

\* a faulty variant of DyalogParagraph, for comparison: >= for >
DyalogParagraphOffByOne(el) ==
    LET text_md == Strip(element_to_markdown(el))
    IN  IF text_md # "" /\ Len(text_md) >= DyalogMinLen THEN <<text_md, "">> ELSE <<>>

\* a p of the Dyalog layouts
DyalogParagraph(el) ==
    LET text_md == Strip(element_to_markdown(el))
    IN  IF text_md # "" /\ Len(text_md) > DyalogMinLen THEN <<text_md, "">> ELSE <<>>

PreFragments(el) ==
    LET code_text == get_text(el, TRUE)
        fence == Backtick \o Backtick \o Backtick
    IN  IF code_text # "" THEN <<fence \o NL \o code_text \o NL \o fence, "">> ELSE <<>>

\* one pass of the docs.dyalog.com loop body: the fragments appended
DocsBlock(el) ==
    CASE el.name = "" -> <<>>
      [] el.name = "h1" -> <<"# " \o get_text(el, TRUE) \o NL>>
      [] el.name = "h2" -> <<NL \o "## " \o get_text(el, TRUE) \o NL>>
      [] el.name = "h3" -> <<NL \o "### " \o get_text(el, TRUE) \o NL>>
      [] el.name = "ul" -> ListFragments(el, FALSE)
      [] el.name = "p" -> DyalogParagraph(el)
      [] el.name = "pre" -> PreFragments(el)
      [] OTHER -> <<>>

\* one pass of the www.dyalog.com loop body
WwwBlock(el) ==
    CASE el.name \in {"h1", "h2", "h3"} ->
            LET text == get_text(el, TRUE)
            IN  IF text # ""
                THEN <<NL \o Repeat("#", HeadingLevel(el.name)) \o " " \o text \o NL>>
                ELSE <<>>
      [] el.name = "ul" -> ListFragments(el, FALSE)
      [] el.name = "p" -> DyalogParagraph(el)
      [] OTHER -> <<>>

\* a faulty variant of WikiKeepsHeading, for comparison: h3 is filtered like h2
WikiFiltersEveryHeading(name, text) ==
    ~Contains(text, "[edit]") /\ text \notin {"Contents", "Navigation menu"}

\* the tests of the h2 and h3 branches
WikiKeepsHeading(name, text) ==
    IF name = "h2"
    THEN ~Contains(text, "[edit]") /\ text \notin {"Contents", "Navigation menu"}
    ELSE ~Contains(text, "[edit]")

\* a faulty variant of WikiParagraph, for comparison: the flag is not looked at
WikiParagraphIgnoresFlag(flag, text_md) == <<text_md, "">>

\* the fragments of an emitted p of the wiki
WikiParagraph(flag, text_md) == (IF flag THEN <<"">> ELSE <<>>) \o <<text_md, "">>

\* one pass of the J wiki loop body: the fragments appended and the new flag
WikiBlock(flag, el) ==
    LET keep(frags) == [frags |-> frags, flag |-> flag]
        emit(frags) == [frags |-> frags, flag |-> FALSE]
        text == get_text(el, TRUE)
        text_md == Strip(element_to_markdown(el))
    IN  CASE el.name = "" -> keep(<<>>)
          [] el.name = "h2" ->
                IF WikiKeepsHeading("h2", text)
                THEN emit(<<NL \o "## " \o text \o NL>>)
                ELSE keep(<<>>)
          [] el.name = "h3" ->
                IF WikiKeepsHeading("h3", text)
                THEN emit(<<NL \o "### " \o text \o NL>>)
                ELSE keep(<<>>)
          [] el.name = "ul" -> [frags |-> ListFragments(el, TRUE), flag |-> TRUE]
          [] el.name = "p" ->
                IF text_md # "" /\ Len(text_md) > WikiMinLen
                THEN emit(WikiParagraph(flag, text_md))
                ELSE keep(<<>>)
          [] el.name = "pre" ->
                IF PreFragments(el) # <<>> THEN emit(PreFragments(el)) ELSE keep(<<>>)
          [] OTHER -> keep(<<>>)

\* the loop body of the layout, as a record of the fragments and the flag
Block(layout, flag, el) ==
    CASE layout = "docs" -> [frags |-> DocsBlock(el), flag |-> flag]
      [] layout = "www" -> [frags |-> WwwBlock(el), flag |-> flag]
      [] OTHER -> WikiBlock(flag, el)

\* a faulty variant of CollapseOnce, for comparison: one newline too few in the replacement
CollapseToOne(s) == ReplaceAll(s, NL3, NL)

\* result.replace('\n\n\n', '\n\n')
CollapseOnce(s) == ReplaceAll(s, NL3, NL2)

RECURSIVE Collapse(_)
\* while '\n\n\n' in result: result = result.replace('\n\n\n', '\n\n')
Collapse(s) == IF Contains(s, NL3) THEN Collapse(CollapseOnce(s)) ELSE s

\* '\n'.join(markdown), the collapse loop, and strip
PostProcess(frags) == Strip(Collapse(Join(NL, frags)))

RECURSIVE Walk(_, _, _, _)
\* the whole block loop: the fragments it leaves in markdown
Walk(layout, flag, md, els) ==
    IF Len(els) = 0 THEN md
    ELSE LET b == Block(layout, flag, Head(els))
         IN  Walk(layout, b.flag, md \o b.frags, Tail(els))

(***************************************************************************)
(* requests.get: a network error, an HTTP error status (raise_for_status), *)
(* or a page / a JSON document.                                            *)
(***************************************************************************)

Resp(kind, msg, has_body, body, soup) ==
    [kind |-> kind, msg |-> msg, has_body |-> has_body, body |-> body, soup |-> soup]

Failure(msg) == Resp("error", msg, FALSE, "", None)

Page(soup) == Resp("ok", "", FALSE, "", soup)

Json(has_body, body) == Resp("ok", "", has_body, body, None)

Failures == {Failure("Connection refused"), Failure("404 Client Error")}

(***************************************************************************)
(* A call either returns a value or raises; an except clause turns what    *)
(* was raised into a returned string.                                      *)
(***************************************************************************)

Ret(v) == [raised |-> FALSE, value |-> v]

Raise(msg) == [raised |-> TRUE, value |-> msg]

\* a faulty variant of Except, for comparison: no except clause, what was raised goes on to the caller
ExceptMissing(outcome, prefix) == outcome

\* except Exception as e: return f"<prefix>{str(e)}"
Except(outcome, prefix) == IF outcome.raised THEN Ret(prefix \o outcome.value) ELSE outcome

ErrorFetching(msg) == "Error fetching release notes: " \o msg

\* the try block of fetch_dyalog_release and of fetch_j_wiki_release
TryFetchHtml(layout, resp) ==
    IF resp.kind = "error" THEN Raise(resp.msg)
    ELSE LET root == FindContent(layout, resp.soup)
         IN  IF root = None THEN Ret(NotFound)
             ELSE Ret(PostProcess(Walk(layout, FALSE, <<>>, Blocks(layout, Prune(layout, root)))))

fetch_dyalog_release(u, resp) ==
    Except(TryFetchHtml(IF Contains(u, "docs.dyalog.com") THEN "docs" ELSE "www", resp),
           "Error fetching release notes: ")

fetch_j_wiki_release(u, resp) ==
    Except(TryFetchHtml("wiki", resp), "Error fetching release notes: ")

RECURSIVE SpanNot(_, _)
\* the length of the longest prefix of s with no character of stops
SpanNot(s, stops) ==
    IF Len(s) = 0 \/ CharAt(s, 1) \in stops THEN 0 ELSE 1 + SpanNot(DropFirst(s, 1), stops)

NoMatch == [ok |-> FALSE, owner |-> "", repo |-> "", tag |-> ""]

\* re.match(r'https://github\.com/([^/]+)/([^/]+)/releases/tag/(.+)', url)
MatchGithub(u) ==
    LET pre == "https://github.com/"
        mid == "/releases/tag/"
        r1 == DropFirst(u, Len(pre))
        n1 == SpanNot(r1, {"/"})
        r2 == DropFirst(r1, n1 + 1)
        n2 == SpanNot(r2, {"/"})
        r3 == DropFirst(r2, n2 + Len(mid))
        n3 == SpanNot(r3, {NL})
    IN  IF /\ StartsWith(u, pre)
           /\ n1 > 0
           /\ StartsWith(DropFirst(r1, n1), "/")
           /\ n2 > 0
           /\ StartsWith(DropFirst(r2, n2), mid)
           /\ n3 > 0
        THEN [ok |-> TRUE, owner |-> SubSeq(r1, 1, n1), repo |-> SubSeq(r2, 1, n2),
              tag |-> SubSeq(r3, 1, n3)]
        ELSE NoMatch

NoNotes == "No release notes available."

\* a faulty variant of TryGithubMarkdown, for comparison: the body is stripped before it is returned
TryGithubMarkdownStripped(repo, tag, resp) ==
    IF resp.kind = "error" THEN Raise(resp.msg)
    ELSE LET body == IF resp.has_body THEN resp.body ELSE ""
         IN  IF body = "" THEN Ret(NoNotes) ELSE Ret(Strip(body))

\* the try block of fetch_github_release_markdown
TryGithubMarkdown(repo, tag, resp) ==
    IF resp.kind = "error" THEN Raise(resp.msg)
    ELSE LET body == IF resp.has_body THEN resp.body ELSE ""
         IN  IF body = "" THEN Ret(NoNotes) ELSE Ret(body)

fetch_github_release_markdown(repo, tag, resp) ==
    Except(TryGithubMarkdown(repo, tag, resp), "Error fetching release notes: ")

fetch_github_release(u, resp) ==
    LET m == MatchGithub(u)
    IN  Except(IF ~m.ok THEN Ret("Invalid GitHub URL format")
               ELSE fetch_github_release_markdown(m.owner \o "/" \o m.repo, m.tag, resp),
               "Error: ")

(***************************************************************************)
(* The inputs of the HTML fetchers: pages whose Content Root holds up to   *)
(* MaxBlocks children drawn from one pool of blocks.                       *)
(***************************************************************************)

MaxBlocks == 3

P(text) == E("p", <<T(text)>>)

Li(kids) == E("li", kids)

HeadPoolA ==
    { E("h1", <<T("Release Notes")>>),
      E("h2", <<T("Contents")>>),
      E("h2", <<E("span", <<T("Changes")>>), E("span", <<T("[edit]")>>)>>),
      E("h3", <<T("Contents")>>),
      P("Plain paragraph text") }

HeadPoolB ==
    { E("h2", <<T("Navigation menu")>>),
      E("h3", <<T("Fixes [edit]")>>),
      E("h2", <<T(" ")>>),
      E("h2", <<T(" Highlights ")>>),
      E("h1", <<T("Contents")>>) }

ParaPoolA ==
    { P("Hello"),
      P(" Hello!\n"),
      E("p", <<A("u", <<T("Hi")>>)>>),
      E("p", <<E("b", <<T("ab")>>)>>),
      E("p", <<T("abc"), A("", <<T("   ")>>), T("d  ")>>) }

ParaPoolB ==
    { P("1234567890"),
      P("12345678901"),
      E("ul", <<Li(<<T("item "), E("em", <<T("one")>>)>>), Li(<<T(" ")>>)>>),
      E("ul", <<Li(<<T("http://x.org")>>), Li(<<A("http://y.org", <<T("y")>>)>>)>>),
      E("pre", <<T(" code()\n")>>) }

ListPool ==
    { E("ul", <<Li(<<T("alpha")>>)>>),
      P("Paragraph one here"),
      P("Second paragraph\n\n\n\nwith a gap"),
      E("h2", <<T("Contents")>>),
      E("ul", <<>>) }

NestPoolA ==
    { E("nav", <<P("NAVLINKS of the site")>>),
      E("p", <<T("Body text is long "), E("nav", <<T("NAVINSIDE")>>)>>),
      E("footer", <<T("FOOTTEXT"), E("ul", <<Li(<<T("FOOTITEM")>>)>>)>>),
      E("ul", <<Li(<<E("nav", <<T("NAVITEM")>>), T("kept")>>)>>),
      EA("div", "", {"toc"}, "", <<E("ul", <<Li(<<T("TOCENTRY")>>)>>)>>) }

NestPoolB ==
    { EA("div", "", {"infobox"}, "", <<P("INFOBOX text long")>>),
      E("ul", <<Li(<<T("outer "), P("Nested paragraph")>>)>>),
      E("ul", <<Li(<<T("top "), E("ul", <<Li(<<T("inner")>>)>>)>>)>>),
      E("ul", <<Li(<<EA("table", "", {"navbox", "wide"}, "", <<T("NAVBOX")>>), T("shown")>>)>>),
      E("ul", <<Li(<<EA("div", "", {"infobox"}, "", <<T("INFOITEM")>>)>>)>>) }

Pools == {HeadPoolA, HeadPoolB, ParaPoolA, ParaPoolB, ListPool, NestPoolA, NestPoolB}

SeqsUpTo(S, n) == UNION {[1..k -> S] : k \in 0..n}

ChildLists == UNION {SeqsUpTo(pool, MaxBlocks) : pool \in Pools}

RootKinds ==
    {"article", "md-content", "content", "main", "mw-parser-output", "mw-content-text", "plain"}

Root(kind, kids) ==
    CASE kind = "article" -> E("article", kids)
      [] kind = "md-content" -> EA("div", "", {"md-content", "md-grid"}, "", kids)
      [] kind = "content" -> EA("div", "", {}, "content", kids)
      [] kind = "main" -> E("main", kids)
      [] kind = "mw-parser-output" -> EA("div", "", {"mw-parser-output"}, "", kids)
      [] kind = "mw-content-text" -> EA("div", "", {"mw-body"}, "mw-content-text", kids)
      [] OTHER -> EA("div", "", {"container"}, "", kids)

Soup(roots) == E("[document]", <<E("body", roots)>>)

\* pages holding both roots of a layout, the fallback one first
BothPages ==
    { Page(Soup(<<Root(pair[2], <<P("Fallback root text")>>),
                  Root(pair[1], <<P("Primary root text")>>)>>)) :
        pair \in {<<"article", "md-content">>, <<"content", "main">>,
                  <<"mw-parser-output", "mw-content-text">>} }

Pages == {Page(Soup(<<Root(k, kids)>>)) : k \in RootKinds, kids \in ChildLists} \cup BothPages

FetchUrls ==
    { "https://docs.dyalog.com/20.0/release-notes/",
      "https://www.dyalog.com/dyalog/dyalog-versions/190.htm",
      "https://code.jsoftware.com/wiki/System/ReleaseNotes/J9.5" }

(***************************************************************************)
(* fetch_dyalog_release and fetch_j_wiki_release, one step at a time.      *)
(***************************************************************************)

FetchIdle ==
    /\ releases_data = None
    /\ pos = <<1, 1>>
    /\ notes_cache = <<>>

InitFetch ==
    /\ FetchIdle
    /\ pc = "start"
    /\ url \in FetchUrls
    /\ response = None
    /\ content = None
    /\ todo = <<>>
    /\ markdown = <<>>
    /\ last_was_list = FALSE
    /\ result = ""
    /\ element = None

\* requests.get or raise_for_status raises: the except clause returns
RequestFails ==
    /\ pc = "start"
    /\ \E r \in Failures :
        /\ response' = r
        /\ result' = ErrorFetching(r.msg)
    /\ pc' = "done"
    /\ UNCHANGED <<releases_data, pos, notes_cache, url, content, todo, markdown,
                   last_was_list, element>>

\* the page arrives and is parsed
RequestOk ==
    /\ pc = "start"
    /\ \E r \in Pages : response' = r
    /\ pc' = "find"
    /\ UNCHANGED <<releases_data, pos, notes_cache, url, content, todo, markdown,
                   last_was_list, result, element>>

\* the selectors of the layout; the sentinel when none matches
Find ==
    /\ pc = "find"
    /\ content' = FindContent(Layout(url), response.soup)
    /\ IF content' = None
       THEN result' = NotFound /\ pc' = "done"
       ELSE result' = result /\ pc' = "prune"
    /\ UNCHANGED <<releases_data, pos, notes_cache, url, response, todo, markdown,
                   last_was_list, element>>

\* the decompose loop, then markdown = [] and the start of the block loop
PruneStep ==
    /\ pc = "prune"
    /\ content' = Prune(Layout(url), content)
    /\ todo' = Blocks(Layout(url), content')
    /\ markdown' = <<>>
    /\ last_was_list' = FALSE
    /\ pc' = "walk"
    /\ UNCHANGED <<releases_data, pos, notes_cache, url, response, result, element>>

\* one pass of the block loop
WalkStep ==
    /\ pc = "walk"
    /\ todo # <<>>
    /\ element' = Head(todo)
    /\ LET b == Block(Layout(url), last_was_list, Head(todo))
       IN  /\ markdown' = markdown \o b.frags
           /\ last_was_list' = b.flag
    /\ todo' = Tail(todo)
    /\ UNCHANGED <<pc, releases_data, pos, notes_cache, url, response, content, result>>

\* result = '\n'.join(markdown)
JoinStep ==
    /\ pc = "walk"
    /\ todo = <<>>
    /\ result' = Join(NL, markdown)
    /\ pc' = "collapse"
    /\ UNCHANGED <<releases_data, pos, notes_cache, url, response, content, todo,
                   markdown, last_was_list, element>>

\* one pass of the while loop
CollapseStep ==
    /\ pc = "collapse"
    /\ Contains(result, NL3)
    /\ result' = CollapseOnce(result)
    /\ UNCHANGED <<pc, releases_data, pos, notes_cache, url, response, content, todo,
                   markdown, last_was_list, element>>

\* return result.strip()
Return ==
    /\ pc = "collapse"
    /\ ~Contains(result, NL3)
    /\ result' = Strip(result)
    /\ pc' = "done"
    /\ UNCHANGED <<releases_data, pos, notes_cache, url, response, content, todo,
                   markdown, last_was_list, element>>

NextFetch ==
    \/ RequestFails
    \/ RequestOk
    \/ Find
    \/ PruneStep
    \/ WalkStep
    \/ JoinStep
    \/ CollapseStep
    \/ Return

SpecFetch == InitFetch /\ [][NextFetch]_vars


(***************************************************************************)
(* The post-processing alone, from any list of emitted fragments.          *)
(***************************************************************************)

MaxFrags == 4

FragPool == {"", "a", " b ", "# T" \o NL, NL \o "## H" \o NL, "p" \o NL3 \o NL \o "q"}

InitPost ==
    /\ FetchIdle
    /\ pc = "emit"
    /\ url \in FetchUrls
    /\ response = None
    /\ content = None
    /\ todo = <<>>
    /\ markdown = <<>>
    /\ last_was_list = FALSE
    /\ result = ""
    /\ element = None

\* markdown.append(fragment), by whichever branch of the block loop
Emit ==
    /\ pc = "emit"
    /\ Len(markdown) < MaxFrags
    /\ \E f \in FragPool : markdown' = Append(markdown, f)
    /\ UNCHANGED <<pc, releases_data, pos, notes_cache, url, response, content, todo,
                   last_was_list, result, element>>

\* the block loop is over
EmitDone ==
    /\ pc = "emit"
    /\ pc' = "walk"
    /\ UNCHANGED <<releases_data, pos, notes_cache, url, response, content, todo, markdown,
                   last_was_list, result, element>>

NextPost ==
    \/ Emit
    \/ EmitDone
    \/ JoinStep
    \/ CollapseStep
    \/ Return

SpecPost == InitPost /\ [][NextPost]_vars

(***************************************************************************)
(* element_to_markdown alone.  The argument is an anchor, or a p or li     *)
(* holding an anchor under up to MaxWrap nested inline elements.           *)
(***************************************************************************)

MaxWrap == 2

WrapTags == {"b", "em", "span", "code"}

AnchorKids ==
    { <<>>,
      <<T("Y")>>,
      <<T("  ")>>,
      <<T(" Y z ")>>,
      <<E("b", <<T("Y")>>)>>,
      <<T("x "), E("i", <<T(" y")>>)>> }

Anchors == {A(href, kids) : href \in {"", "http://x.org/a"}, kids \in AnchorKids}

RECURSIVE Wrap(_, _)
\* the node under the wrappers of the chain, outermost first
Wrap(chain, node) ==
    IF Len(chain) = 0 THEN node ELSE E(Head(chain), <<T("w"), Wrap(Tail(chain), node)>>)

ConvertNodes ==
    Anchors
    \cup {E(top, <<T("see "), Wrap(chain, a), T(".")>>) :
            top \in {"p", "li"}, chain \in SeqsUpTo(WrapTags, MaxWrap), a \in Anchors}
    \cup {T("plain text "), T("")}

InitConvert ==
    /\ FetchIdle
    /\ pc = "convert"
    /\ url = ""
    /\ response = None
    /\ content = None
    /\ todo = <<>>
    /\ markdown = <<>>
    /\ last_was_list = FALSE
    /\ result = ""
    /\ element \in ConvertNodes

Convert ==
    /\ pc = "convert"
    /\ result' = element_to_markdown(element)
    /\ pc' = "done"
    /\ UNCHANGED <<releases_data, pos, notes_cache, url, response, content, todo,
                   markdown, last_was_list, element>>

NextConvert == Convert

SpecConvert == InitConvert /\ [][NextConvert]_vars


(***************************************************************************)
(* main: the configuration, the loop over languages and versions, and the  *)
(* cache.                                                                  *)
(***************************************************************************)

MaxVersions == 2

Lang(name, has_releases, releases, url_template) ==
    [name |-> name, has_releases |-> has_releases, releases |-> releases,
     url_template |-> url_template]

Languages ==
    [key \in {"examplelang", "uiua", "j", "dyalog", "kap", "bqn"} |->
        CASE key = "examplelang" ->
                Lang("ExampleLang", TRUE,
                     "1.0" :> "https://github.com/example/lang/releases/tag/1.0", "")
          [] key = "uiua" ->
                Lang("Uiua", FALSE, <<>>,
                     "https://github.com/uiua-lang/uiua/releases/tag/{version}")
          [] key = "j" ->
                Lang("J", FALSE, <<>>,
                     "https://code.jsoftware.com/wiki/System/ReleaseNotes/J{version}")
          [] key = "dyalog" ->
                Lang("Dyalog APL", TRUE,
                     ("20.0" :> "https://docs.dyalog.com/20.0/release-notes/") @@ ("1.0" :> ""),
                     "")
          [] key = "kap" ->
                Lang("Kap", FALSE, <<>>, "https://codeberg.org/loke/array/releases/tag/{version}")
          [] OTHER ->
                Lang("BQN", FALSE, <<>>, "https://github.com/mlochbaum/BQN/tree/{version}")]

Versions == {"1.0", "20.0"}

LangOrders ==
    { <<"examplelang", "dyalog">>, <<"dyalog", "uiua">>, <<"j", "kap">>, <<"bqn", "j">> }

\* releases.json as loaded: the languages, and the releases in file order
Configs ==
    { [languages |-> Languages, releases |-> <<<<o[1], v1>>, <<o[2], v2>>>>] :
        o \in LangOrders, v1 \in SeqsUpTo(Versions, MaxVersions),
        v2 \in SeqsUpTo(Versions, MaxVersions) }

\* lang_data['releases'].get(version), or the template with {version} replaced;
\* "" stands for None as well: both are false
UrlFor(lang_data, version) ==
    IF lang_data.has_releases
    THEN (IF version \in DOMAIN lang_data.releases THEN lang_data.releases[version] ELSE "")
    ELSE ReplaceAll(lang_data.url_template, "{version}", version)

Source(u) ==
    IF Contains(u, "github.com") THEN "github"
    ELSE IF Contains(u, "jsoftware.com") THEN "jwiki"
    ELSE IF Contains(u, "dyalog.com") THEN "dyalog"
    ELSE "unknown"

\* notes = fetch_...(url), or "Unknown source"
FetchNotes(u, resp) ==
    CASE Source(u) = "github" -> fetch_github_release(u, resp)
      [] Source(u) = "jwiki" -> fetch_j_wiki_release(u, resp)
      [] Source(u) = "dyalog" -> fetch_dyalog_release(u, resp)
      [] OTHER -> Ret("Unknown source")

CacheKey(lang_key, version) == lang_key \o "-" \o version

Record(lang_data, version, u, notes) ==
    [language |-> lang_data.name, version |-> version, url |-> u, notes |-> notes]

NoRequest == Resp("none", "", FALSE, "", None)

ExampleBody == "## Changes" \o NL \o "- fixed bug"

GithubResponses ==
    Failures \cup {Json(TRUE, ExampleBody), Json(TRUE, "Notes" \o NL), Json(TRUE, ""), Json(FALSE, "")}

MainPages ==
    { Page(Soup(<<Root("article", <<E("h1", <<T("Release Notes")>>), P("Plain paragraph text")>>)>>)),
      Page(Soup(<<Root("mw-parser-output", <<E("ul", <<Li(<<T("alpha")>>)>>)>>)>>)) }

\* what requests.get can bring for the URL; no request is made for a URL that
\* no fetcher takes
Responses(u) ==
    CASE Source(u) = "github" /\ MatchGithub(u).ok -> GithubResponses
      [] Source(u) \in {"jwiki", "dyalog"} -> Failures \cup MainPages
      [] OTHER -> {NoRequest}

LangKey == releases_data.releases[pos[1]][1]

VersionList == releases_data.releases[pos[1]][2]

Init ==
    /\ pc = "loop"
    /\ releases_data \in Configs
    /\ pos = <<1, 1>>
    /\ notes_cache = <<>>
    /\ url = ""
    /\ response = NoRequest
    /\ content = None
    /\ todo = <<>>
    /\ markdown = <<>>
    /\ last_was_list = FALSE
    /\ result = ""
    /\ element = None

InLoop ==
    /\ pc = "loop"
    /\ pos[1] <= Len(releases_data.releases)
    /\ pos[2] <= Len(VersionList)

\* the position after one pass of the inner loop
Advance(p) == <<p[1], p[2] + 1>>

\* the explicit mapping has no URL for the version: continue
SkipVersion ==
    /\ InLoop
    /\ url' = UrlFor(releases_data.languages[LangKey], VersionList[pos[2]])
    /\ url' = ""
    /\ pos' = Advance(pos)
    /\ UNCHANGED <<pc, releases_data, notes_cache, response, content, todo, markdown,
                   last_was_list, result, element>>

\* one pass of the inner loop: fetch the notes and store the record; an
\* exception leaving the fetcher would end the run
ProcessVersion ==
    /\ InLoop
    /\ LET lang_data == releases_data.languages[LangKey]
           version == VersionList[pos[2]]
       IN  /\ url' = UrlFor(lang_data, version)
           /\ url' # ""
           /\ \E r \in Responses(url') :
                /\ response' = r
                /\ LET notes == FetchNotes(url', r)
                   IN  IF notes.raised
                       THEN /\ pc' = "aborted"
                            /\ UNCHANGED <<notes_cache, pos>>
                       ELSE /\ pc' = pc
                            /\ notes_cache' =
                                 (CacheKey(LangKey, version) :>
                                    Record(lang_data, version, url', notes.value))
                                 @@ notes_cache
                            /\ pos' = Advance(pos)
    /\ UNCHANGED <<releases_data, content, todo, markdown, last_was_list, result, element>>

\* the inner loop is over: the next language
NextLanguage ==
    /\ pc = "loop"
    /\ pos[1] <= Len(releases_data.releases)
    /\ pos[2] > Len(VersionList)
    /\ pos' = <<pos[1] + 1, 1>>
    /\ UNCHANGED <<pc, releases_data, notes_cache, url, response, content, todo, markdown,
                   last_was_list, result, element>>

\* the outer loop is over: json.dump(notes_cache, f, indent=2)
Save ==
    /\ pc = "loop"
    /\ pos[1] > Len(releases_data.releases)
    /\ pc' = "saved"
    /\ UNCHANGED <<releases_data, pos, notes_cache, url, response, content, todo, markdown,
                   last_was_list, result, element>>

Next ==
    \/ SkipVersion
    \/ ProcessVersion
    \/ NextLanguage
    \/ Save

Spec == Init /\ [][Next]_vars


(***************************************************************************)
(* Notions the properties are stated with.                                 *)
(***************************************************************************)

RECURSIVE AllNodes(_)
\* the node and everything below it, as a set
AllNodes(node) == {node} \cup UNION {AllNodes(node.kids[i]) : i \in 1..Len(node.kids)}

Below(node) == AllNodes(node) \ {node}

\* some node of the page matches one of the two selectors of the layout
HasSelector(layout, soup) ==
    \E n \in Below(soup) :
        CASE layout = "docs" -> n.name = "article" \/ (n.name = "div" /\ "md-content" \in n.cls)
          [] layout = "www" -> (n.name = "div" /\ n.id = "content") \/ n.name = "main"
          [] OTHER -> n.name = "div" /\ ("mw-parser-output" \in n.cls \/ n.id = "mw-content-text")

\* the number of places at which sub occurs in s
Occurrences(s, sub) ==
    Cardinality({i \in 1..Len(s) : i + Len(sub) - 1 <= Len(s) /\ SubSeq(s, i, i + Len(sub) - 1) = sub})

\* the texts of the text nodes of a set of nodes, stripped, the empty ones left out
TextsIn(nodes) == {Strip(n.text) : n \in {m \in nodes : IsString(m)}} \ {""}

\* the Content Root as the selectors found it, before anything was removed
FoundRoot == FindContent(Layout(url), response.soup)

\* a pass of the block loop is about to handle the element
Handling(names) == pc = "walk" /\ todo # <<>> /\ Head(todo).name \in names

Hashes(name) == CASE name = "h1" -> "#" [] name = "h2" -> "##" [] OTHER -> "###"

Last(seq) == seq[Len(seq)]

\* the position in main of the version stored last, when the last pass of the
\* inner loop stored one
StoredLast == pc = "loop" /\ pos[2] > 1 /\ url # ""

LastVersion == VersionList[pos[2] - 1]

LastKey == CacheKey(LangKey, LastVersion)

(***************************************************************************)
(* C1.                                                                     *)
(***************************************************************************)

Listed == {<<i, j>> \in (1..Len(releases_data.releases)) \X (1..MaxVersions + 1) :
              j <= Len(releases_data.releases[i][2])}

KeyOf(ij) == CacheKey(releases_data.releases[ij[1]][1], releases_data.releases[ij[1]][2][ij[2]])

UrlOf(ij) ==
    UrlFor(releases_data.languages[releases_data.releases[ij[1]][1]],
           releases_data.releases[ij[1]][2][ij[2]])

\* C1 as stated: no failure of one version aborts the run, and when the run
\* has saved the cache every version listed in the configuration has a Release
\* Record under <language-key>-<version>.
C1_EveryListedVersionStored ==
    /\ pc # "aborted"
    /\ pc = "saved" => \A ij \in Listed : KeyOf(ij) \in DOMAIN notes_cache

\* C1 as amended: no failure of one version aborts the run; a failed fetch
\* stores its sentinel as the notes; and when the run has saved the cache,
\* every listed version for which a URL was found has its Release Record (with
\* the language name, the version and the URL), while a version whose explicit
\* mapping has no URL was skipped and has none.
C1_FailureNeverAborts ==
    /\ pc # "aborted"
    /\ StoredLast =>
        /\ LastKey \in DOMAIN notes_cache
        /\ LET notes == notes_cache[LastKey].notes
           IN  /\ response.kind = "error" => notes = "Error fetching release notes: " \o response.msg
               /\ Source(url) = "unknown" => notes = "Unknown source"
               /\ Source(url) = "github" /\ response.kind = "none" =>
                    notes = "Invalid GitHub URL format"
               /\ response.soup # None /\ ~HasSelector(Layout(url), response.soup) =>
                    notes = "Release notes not found on page."
    /\ pc = "saved" =>
        \A ij \in Listed :
            IF UrlOf(ij) = ""
            THEN KeyOf(ij) \notin DOMAIN notes_cache
            ELSE /\ KeyOf(ij) \in DOMAIN notes_cache
                 /\ LET rec == notes_cache[KeyOf(ij)]
                        lang_key == releases_data.releases[ij[1]][1]
                    IN  /\ rec.language = releases_data.languages[lang_key].name
                        /\ rec.version = releases_data.releases[ij[1]][2][ij[2]]
                        /\ rec.url = UrlOf(ij)

\* a run that stored the sentinel of a failed fetch for the first language and
\* went on to store real notes for the second
C1_Witness ==
    /\ pc = "saved"
    /\ releases_data.releases[1][1] = "dyalog"
    /\ "dyalog-20.0" \in DOMAIN notes_cache
    /\ "uiua-1.0" \in DOMAIN notes_cache
    /\ notes_cache["dyalog-20.0"].notes = "Error fetching release notes: 404 Client Error"
    /\ notes_cache["uiua-1.0"].notes = ExampleBody

(***************************************************************************)
(* C4.                                                                     *)
(***************************************************************************)

GithubBodyStored == StoredLast /\ MatchGithub(url).ok /\ response.kind = "ok" /\ response.has_body

\* C4 as stated: a GitHub release-tag URL whose API response carries a body B
\* leaves the record <language-key>-<version> with notes exactly B.
C4_AnyBodyStored ==
    GithubBodyStored =>
        LastKey \in DOMAIN notes_cache /\ notes_cache[LastKey].notes = response.body

\* C4 as amended: the same for a body B that is not empty; an empty body is
\* replaced by "No release notes available.".
C4_NonEmptyBodyStored ==
    GithubBodyStored =>
        /\ LastKey \in DOMAIN notes_cache
        /\ notes_cache[LastKey].notes =
              (IF response.body = "" THEN "No release notes available." ELSE response.body)

\* the example of the specification: examplelang 1.0 and its stubbed body
C4_Witness ==
    /\ GithubBodyStored
    /\ LastKey = "examplelang-1.0"
    /\ response.body = "## Changes" \o NL \o "- fixed bug"
    /\ notes_cache["examplelang-1.0"].notes = response.body

(***************************************************************************)
(* C2.                                                                     *)
(***************************************************************************)

\* C2: when the fetched page holds none of the selectors of its layout, the
\* fetcher returns exactly "Release notes not found on page.": nothing was
\* rendered, and the function returns rather than raises.
C2_MissingRootSentinel ==
    (pc = "done" /\ response.kind = "ok" /\ ~HasSelector(Layout(url), response.soup)) =>
        /\ result = "Release notes not found on page."
        /\ content = None
        /\ markdown = <<>>
        /\ (IF Layout(url) = "wiki" THEN fetch_j_wiki_release(url, response)
            ELSE fetch_dyalog_release(url, response)) = Ret(result)

\* a page with blocks under a root of another layout, fetched as a docs page
C2_Witness ==
    /\ pc = "done"
    /\ Layout(url) = "docs"
    /\ response.kind = "ok"
    /\ ~HasSelector("docs", response.soup)
    /\ \E n \in Below(response.soup) : n.name = "p"
    /\ result = NotFound

(***************************************************************************)
(* C3.                                                                     *)
(***************************************************************************)

RECURSIVE Squeeze(_)
\* s with every maximal run of three or more newlines made two newlines
Squeeze(s) ==
    IF Len(s) = 0 THEN ""
    ELSE LET n == Len(s) - Len(LStripNewlines(s))
         IN  IF n = 0 THEN CharAt(s, 1) \o Squeeze(DropFirst(s, 1))
             ELSE (IF n >= 3 THEN NL2 ELSE SubSeq(s, 1, n)) \o Squeeze(DropFirst(s, n))

\* C3: the collapse loop terminates, since every pass it makes shortens the
\* string, and the string returned has no run of three or more newlines: it is
\* the joined fragments with every run of three or more newlines made exactly
\* two, stripped.
C3_CollapseRule ==
    [][/\ (pc = "collapse" /\ pc' = "collapse") => Len(result') < Len(result)
       /\ pc' = "done" =>
            /\ ~Contains(result', NL3)
            /\ result' = Strip(Squeeze(Join(NL, markdown')))]_vars

\* fragments whose join has a run of five newlines between two texts
C3_Witness ==
    /\ pc = "done"
    /\ Contains(Join(NL, markdown), "T" \o NL3 \o NL2 \o "## H")
    /\ Contains(result, "T" \o NL2 \o "## H")


(***************************************************************************)
(* C5.                                                                     *)
(***************************************************************************)

HeadingNames == {"h1", "h2", "h3"}

WikiArtifact(text) == Contains(text, "[edit]") \/ text \in {"Contents", "Navigation menu"}

\* C5 as stated: in every layout a heading whose text contains [edit], or is
\* Contents or Navigation menu, adds no fragment, and every other heading adds
\* one fragment holding #, ## or ###, a space and its text.
C5_HeadingFilterEverywhere ==
    [][Handling(HeadingNames) =>
        LET el == Head(todo)
            text == get_text(el, TRUE)
        IN  IF WikiArtifact(text)
            THEN markdown' = markdown
            ELSE /\ Len(markdown') = Len(markdown) + 1
                 /\ SubSeq(markdown', 1, Len(markdown)) = markdown
                 /\ Strip(Last(markdown')) = Hashes(el.name) \o " " \o text]_vars

\* what a heading adds in each layout
HeadingFragments(layout, el) ==
    LET text == get_text(el, TRUE)
        line == Hashes(el.name) \o " " \o text \o NL
        dropped ==
            CASE layout = "wiki" ->
                    \/ el.name = "h1"
                    \/ Contains(text, "[edit]")
                    \/ el.name = "h2" /\ text \in {"Contents", "Navigation menu"}
              [] layout = "www" -> text = ""
              [] OTHER -> FALSE
    IN  IF dropped THEN <<>>
        ELSE IF layout = "docs" /\ el.name = "h1" THEN <<line>>
        ELSE <<NL \o line>>

\* C5 as amended: the filter is the wiki's alone.  There an h2 whose text
\* contains [edit] or is Contents or Navigation menu, and an h3 whose text
\* contains [edit], add nothing, an h1 is never emitted, and every other h2 or
\* h3 (an h3 named Contents too) is emitted as ## or ###, a space and its text.
\* The Dyalog layouts emit every h1, h2 and h3 whatever its text, but that
\* www.dyalog.com drops a heading with no text.
C5_HeadingFilterByLayout ==
    [][Handling(HeadingNames) =>
        markdown' = markdown \o HeadingFragments(Layout(url), Head(todo))]_vars

\* the wiki has just emitted an h3 named Contents, after dropping an h2 so named
C5_Witness ==
    /\ pc = "walk"
    /\ Layout(url) = "wiki"
    /\ element = E("h3", <<T("Contents")>>)
    /\ content.kids = <<E("h2", <<T("Contents")>>), E("h3", <<T("Contents")>>)>>
    /\ markdown = <<NL \o "### Contents" \o NL>>

(***************************************************************************)
(* C6.                                                                     *)
(***************************************************************************)

DyalogLayouts == {"docs", "www"}

\* the text of a paragraph as a reader sees it
VisibleText(el) == Strip(get_text(el, FALSE))

\* C6 as stated: in the Dyalog layouts a p with 5 or fewer visible characters
\* adds nothing and one with 6 or more adds its text and a blank line, the
\* characters counted being those of the visible text.
C6_ParagraphFilterOnVisibleText ==
    [][(Handling({"p"}) /\ Layout(url) \in DyalogLayouts) =>
        IF Len(VisibleText(Head(todo))) <= 5
        THEN markdown' = markdown
        ELSE /\ Len(markdown') = Len(markdown) + 2
             /\ Last(markdown') = ""]_vars

\* C6 as amended: the characters counted are those of the converted text of
\* the paragraph, stripped, the link and emphasis markup included: with 5 or
\* fewer the p adds nothing, with 6 or more it adds that text and then an
\* empty fragment, the blank line.
C6_ParagraphFilterOnMarkdown ==
    [][(Handling({"p"}) /\ Layout(url) \in DyalogLayouts) =>
        LET text_md == Strip(element_to_markdown(Head(todo)))
        IN  IF Len(text_md) <= 5
            THEN markdown' = markdown
            ELSE markdown' = markdown \o <<text_md, "">>]_vars

\* a paragraph of two visible characters was kept for its link markup, after
\* one of five characters was dropped
C6_Witness ==
    /\ pc = "walk"
    /\ Layout(url) = "docs"
    /\ content.kids = <<P("Hello"), E("p", <<A("u", <<T("Hi")>>)>>)>>
    /\ element = E("p", <<A("u", <<T("Hi")>>)>>)
    /\ markdown = <<"[Hi](u)", "">>

(***************************************************************************)
(* C7.                                                                     *)
(***************************************************************************)

RECURSIVE ReachedAnchors(_)
\* the anchors the conversion of the node comes to: its a children, and those
\* of the children it recurses into
ReachedAnchors(node) ==
    {node.kids[i] : i \in {j \in 1..Len(node.kids) : node.kids[j].name = "a"}}
    \cup UNION {ReachedAnchors(node.kids[i]) :
                  i \in {j \in 1..Len(node.kids) : node.kids[j].name \notin {"", "a", "code"}}}

Linked(a) == a.href # "" /\ get_text(a, TRUE) # ""

\* [Y](X), or Y alone
Rendering(a) ==
    IF Linked(a) THEN "[" \o get_text(a, TRUE) \o "](" \o a.href \o ")" ELSE get_text(a, TRUE)

NoLinkMarkup(s) == \A c \in {"[", "]", "(", ")"} : ~Contains(s, c)

\* C7 as stated: every anchor, the node passed to the converter as well as an
\* anchor below it, is rendered [Y](X) when it has an href and a text, and as
\* its text alone otherwise.
C7_AnchorRuleEveryNode ==
    pc = "done" =>
        /\ element.name = "a" => result = Rendering(element)
        /\ \A a \in ReachedAnchors(element) : Contains(result, Rendering(a))

\* C7 as amended: the rule holds of every anchor that is a child of the node
\* converted or of an element the conversion recurses into.  The node passed to
\* the converter is not rendered itself: an anchor passed to it yields the
\* conversion of its children with no link markup.
C7_AnchorRuleOfChildren ==
    pc = "done" =>
        /\ \A a \in ReachedAnchors(element) :
                /\ Contains(result, Rendering(a))
                /\ ~Linked(a) => NoLinkMarkup(result)
        /\ (~IsString(element) /\ \A i \in 1..Len(element.kids) : element.kids[i].name \in {"", "a"}) =>
                result = Join("", [i \in 1..Len(element.kids) |->
                                    IF IsString(element.kids[i]) THEN element.kids[i].text
                                    ELSE Rendering(element.kids[i])])
        /\ element.name = "a" => NoLinkMarkup(result)

\* an anchor with an href and a text, reached through a b
C7_Witness ==
    /\ pc = "done"
    /\ element = E("p", <<T("see "), E("b", <<T("w"), A("http://x.org/a", <<T(" Y z ")>>)>>), T(".")>>)
    /\ result = "see **w[Y z](http://x.org/a)**."

(***************************************************************************)
(* C8.                                                                     *)
(***************************************************************************)

\* the texts inside the elements C8 says are pruned
PrunableTexts(layout, root) ==
    TextsIn(UNION {AllNodes(n) :
        n \in {m \in Below(root) :
                \/ m.name \in {"nav", "footer"}
                \/ layout = "wiki" /\ m.cls \cap {"toc", "navbox", "metadata", "infobox"} # {}}})

\* C8: in every layout no text inside a nav or footer of the Content Root (for
\* the wiki also inside an element classed toc, navbox, metadata or infobox)
\* appears in the returned notes.
C8_PrunedTextAbsent ==
    (pc = "done" /\ content # None) =>
        \A t \in PrunableTexts(Layout(url), FoundRoot) : ~Contains(result, t)

(***************************************************************************)
(* C9.                                                                     *)
(***************************************************************************)

WikiEmits(el) ==
    el.name = "p" /\ Len(Strip(element_to_markdown(el))) > WikiMinLen

\* a list with an item, followed at once by a paragraph that is emitted
ListThenParagraph(kids) ==
    \E i \in 1..(Len(kids) - 1) :
        /\ kids[i].name = "ul"
        /\ ListFragments(kids[i], TRUE) # <<"">>
        /\ WikiEmits(kids[i + 1])

\* C9 as stated: the notes the wiki fetcher returns show one more blank line
\* between a list and the paragraph after it than between two paragraphs, that
\* is two blank lines, three newlines in a row.
C9_ExtraBlankLineShown ==
    (pc = "done" /\ Layout(url) = "wiki" /\ content # None /\ ListThenParagraph(content.kids)) =>
        Contains(result, NL3)

\* C9 as amended: last_was_list is true exactly when the last block that added
\* fragments was a list, and a paragraph emitted while it is true is preceded
\* by one extra empty fragment; the collapse loop takes that extra blank line
\* out again, so the returned notes show one blank line there as between two
\* paragraphs.
C9_ListFlagAndCollapsedGap ==
    [][/\ (Handling({"h1", "h2", "h3", "ul", "p", "pre", "div", "table", "nav", "footer"})
            /\ Layout(url) = "wiki") =>
            LET el == Head(todo)
                emitted == markdown' # markdown
            IN  /\ last_was_list' =
                      (IF el.name = "ul" THEN TRUE ELSE IF emitted THEN FALSE ELSE last_was_list)
                /\ el.name = "ul" => emitted
                /\ (el.name = "p" /\ emitted) =>
                      markdown' = markdown \o (IF last_was_list THEN <<"">> ELSE <<>>)
                                           \o <<Strip(element_to_markdown(el)), "">>
       /\ (pc' = "done" /\ Layout(url) = "wiki" /\ content # None) =>
            /\ ~Contains(result', NL3)
            /\ ListThenParagraph(content.kids) =>
                 \E i \in 1..(Len(content.kids) - 1) :
                    /\ content.kids[i].name = "ul"
                    /\ ListFragments(content.kids[i], TRUE) # <<"">>
                    /\ WikiEmits(content.kids[i + 1])
                    /\ Contains(result', Last(SubSeq(ListFragments(content.kids[i], TRUE), 1,
                                                    Len(ListFragments(content.kids[i], TRUE)) - 1))
                                         \o NL2)]_vars

\* a list, a dropped heading, and then a paragraph that got the extra fragment
C9_Witness ==
    /\ pc = "walk"
    /\ Layout(url) = "wiki"
    /\ content.kids = <<E("ul", <<Li(<<T("alpha")>>)>>), E("h2", <<T("Contents")>>),
                        P("Paragraph one here")>>
    /\ element = P("Paragraph one here")
    /\ markdown = <<"* alpha", "", "", "Paragraph one here", "">>
    /\ ~last_was_list

(***************************************************************************)
(* C10.                                                                    *)
(***************************************************************************)

RECURSIVE Sum(_)
Sum(ns) == IF Len(ns) = 0 THEN 0 ELSE Head(ns) + Sum(Tail(ns))

\* how often t occurs in the texts and hrefs of the page below the node
SourceOccurrences(node, t) ==
    LET all == Descendants(node)
    IN  Sum([i \in 1..Len(all) |-> Occurrences(all[i].text, t) + Occurrences(all[i].href, t)])

\* C10: each piece of source text is rendered at most once in the returned
\* notes: a text occurs in the notes no more often than in the Content Root.
C10_TextRenderedOnce ==
    (pc = "done" /\ content # None) =>
        \A t \in TextsIn(Below(FoundRoot)) :
            Occurrences(result, t) <= SourceOccurrences(FoundRoot, t)

====
